---- MODULE Spec2Model ----
(***************************************************************************)
(* A model of tex-slasher (src/src/main.rs): the grid coordinate AtlasPos, *)
(* the archive multiplexer Zips, the atlas slicer process_atlas and the    *)
(* run driver main.                                                        *)
(*                                                                         *)
(* Texts that the code inspects byte by byte or orders (the input of       *)
(* from_str, archive file names) are sequences of Unicode scalar values.   *)
(* A file name is the sequence of its dot-separated segments ("a.x" is     *)
(* <<"a", "x">>), a path the sequence of its components.                   *)
(***************************************************************************)
EXTENDS Integers, Sequences, FiniteSets, TLC

VARIABLES
    call,       \* the last AtlasPos operation applied, its arguments and result
    declared,   \* the [folders] table as the mapping file declares it, in file order
    files,      \* archive file name -> the entries by_name can open
    locked,     \* archive file name -> the entries by_name refuses to open
    zips,       \* Zips.0: the opened archives with their path prefixes
    found,      \* the last Zips::find call: its argument and result
    atlas,      \* the Atlas handed to process_atlas: AtlasPos -> output name
    image,      \* the image handed to process_atlas
    fs,         \* the output tree: path -> content
    res,        \* what the last process_atlas call did
    toml,       \* the deserialized mapping file
    pngs,       \* archive entry -> what image::load makes of its bytes
    pc,         \* where main is
    live,       \* the ZipFile handles that find returned and are not dropped yet
    unread,     \* the handles returned so far that were not read to their end
    exit,       \* the exit status of the process, -1 while it runs
    out,        \* the lines printed to stdout
    steps,      \* the steps main performed in this run, in order
    history     \* the exit statuses of the earlier runs over this output tree

coordVars == <<call>>

findVars == <<declared, files, locked, zips, found>>

sliceVars == <<atlas, image, fs, res>>

runVars == <<toml, pngs, pc, live, unread, exit, out, steps, history>>

vars == <<coordVars, findVars, sliceVars, runVars>>

None == [op |-> "none"]

Ok(v) == [ok |-> TRUE, val |-> v]

Err(e) == [ok |-> FALSE, err |-> e]

(***************************************************************************)
(* Grid coordinate: struct AtlasPos(u8)                                    *)
(***************************************************************************)

\* the atlas is a Grid x Grid grid of cells (the loops 0..16 of process_atlas)
Grid == 16

\* side of a cell in pixels
Cell == 16

\* u8 values are kept modulo U8
U8 == 256

\* longest text drawn as an input of from_str
MaxLen == 3

RECURSIVE BitOr(_, _)
\* a | b on naturals, bit by bit
BitOr(a, b) ==
    IF a = 0 THEN b
    ELSE IF b = 0 THEN a
    ELSE (IF a % 2 = 1 \/ b % 2 = 1 THEN 1 ELSE 0) + (2 * BitOr(a \div 2, b \div 2))

RECURSIVE BitAnd(_, _)
\* a & b on naturals, bit by bit
BitAnd(a, b) ==
    IF a = 0 \/ b = 0 THEN 0
    ELSE (IF a % 2 = 1 /\ b % 2 = 1 THEN 1 ELSE 0) + (2 * BitAnd(a \div 2, b \div 2))

\* the swapped packing: column in the high nibble
from_pos_swapped(px, py) == BitOr((px * 16) % U8, py)

\* AtlasPos::from_pos: Self((y << 4) | x), on u8
from_pos(px, py) == BitOr((py * 16) % U8, px)

\* {:x} of a u8: lowercase hexadecimal, no padding, as code points
RECURSIVE LowerHex(_)
LowerHex(n) ==
    LET d == n % 16
        c == IF d < 10 THEN 48 + d ELSE 97 + (d - 10)
    IN  IF n < 16 THEN <<c>> ELSE LowerHex(n \div 16) \o <<c>>

\* the formatting with the two digits in the other order
fmt_swapped(p) == LowerHex(BitAnd(p, 15)) \o LowerHex(p \div 16)

\* Debug for AtlasPos: write!(f, "{:x}{:x}", y, x) with x = self.0 & 0xf, y = self.0 >> 4
fmt(p) == LowerHex(p \div 16) \o LowerHex(BitAnd(p, 15))

\* the UTF-8 encoding of one Unicode scalar value
Utf8(cp) ==
    IF cp < 128 THEN <<cp>>
    ELSE IF cp < 2048 THEN <<192 + (cp \div 64), 128 + (cp % 64)>>
    ELSE IF cp < 65536
         THEN <<224 + (cp \div 4096), 128 + ((cp \div 64) % 64), 128 + (cp % 64)>>
    ELSE <<240 + (cp \div 262144), 128 + ((cp \div 4096) % 64),
           128 + ((cp \div 64) % 64), 128 + (cp % 64)>>

RECURSIVE as_bytes(_)
\* str::as_bytes: the UTF-8 bytes of the text
as_bytes(t) == IF t = <<>> THEN <<>> ELSE Utf8(Head(t)) \o as_bytes(Tail(t))

\* u8::is_ascii_hexdigit
is_ascii_hexdigit(b) == b \in (48..57) \cup (65..70) \cup (97..102)

\* char::to_digit(16) of an ASCII byte, -1 when it is no digit
to_digit(b) ==
    IF b \in 48..57 THEN b - 48
    ELSE IF b \in 97..102 THEN b - 97 + 10
    ELSE IF b \in 65..70 THEN b - 65 + 10
    ELSE -1

RECURSIVE RadixDigits(_, _)
\* the digits of from_str_radix accumulated left to right; -1 on a bad digit or overflow
RadixDigits(bytes, acc) ==
    IF bytes = <<>> THEN acc
    ELSE LET d == to_digit(Head(bytes))
             n == (acc * 16) + d
         IN  IF d < 0 \/ n >= U8 THEN -1 ELSE RadixDigits(Tail(bytes), n)

\* u8::from_str_radix(s, 16): an optional leading '+', then at least one digit
from_str_radix(bytes) ==
    LET digits == IF bytes # <<>> /\ Head(bytes) = 43 /\ Len(bytes) > 1
                  THEN Tail(bytes) ELSE bytes
        n == RadixDigits(digits, 0)
    IN  IF digits = <<>> \/ n < 0 THEN Err("ParseIntError") ELSE Ok(n)

\* a from_str that leaves the test of the digits to from_str_radix
from_str_unguarded(t) ==
    LET bytes == as_bytes(t)
    IN  IF Len(bytes) = 2
        THEN LET r == from_str_radix(bytes)
             IN  IF r.ok THEN Ok(r.val) ELSE Err([kind |-> "NotHexDigits"])
        ELSE Err([kind |-> "WrongSize", len |-> Len(bytes)])

\* FromStr for AtlasPos: match s.as_bytes()
from_str(t) ==
    LET bytes == as_bytes(t)
    IN  IF Len(bytes) = 2
        THEN IF is_ascii_hexdigit(bytes[1]) /\ is_ascii_hexdigit(bytes[2])
             THEN LET r == from_str_radix(bytes)
                  IN  IF r.ok THEN Ok(r.val) ELSE Err([kind |-> "NotHexDigits"])
             ELSE Err([kind |-> "NotHexDigits"])
        ELSE Err([kind |-> "WrongSize", len |-> Len(bytes)])

\* #[derive(PartialOrd, Ord)] on AtlasPos(u8): the order of the packed byte
cmp(a, b) == IF a < b THEN "Less" ELSE IF a = b THEN "Equal" ELSE "Greater"

\* code points drawn for the input texts: 0 1 9 a f A F g + e-acute euro
CharSample == {48, 49, 57, 97, 102, 65, 70, 103, 43, 233, 8364}

Texts == UNION {[1..n -> CharSample] : n \in 0..MaxLen}

IdleCoord == call = None

IdleFind ==
    /\ declared = <<>>
    /\ files = <<>>
    /\ locked = <<>>
    /\ zips = <<>>
    /\ found = None

IdleSlice ==
    /\ atlas = <<>>
    /\ image = [ok |-> FALSE]
    /\ fs = <<>>
    /\ res = None

IdleRun ==
    /\ toml = None
    /\ pngs = <<>>
    /\ pc = None
    /\ live = {}
    /\ unread = {}
    /\ exit = -1
    /\ out = <<>>
    /\ steps = <<>>
    /\ history = <<>>

InitCoord ==
    /\ call = None
    /\ IdleFind
    /\ IdleSlice
    /\ IdleRun

\* let p = AtlasPos::from_pos(x, y)
FromPos ==
    /\ call.op = "none"
    /\ \E px \in 0..(Grid - 1), py \in 0..(Grid - 1) :
          call' = [op |-> "from_pos", x |-> px, y |-> py, val |-> from_pos(px, py)]
    /\ UNCHANGED <<findVars, sliceVars, runVars>>

\* format!("{:?}", p) of the position just built
Fmt ==
    /\ call.op = "from_pos"
    /\ call' = [op |-> "fmt", x |-> call.x, y |-> call.y, pos |-> call.val,
                val |-> fmt(call.val)]
    /\ UNCHANGED <<findVars, sliceVars, runVars>>

\* text.parse::<AtlasPos>() of the text just formatted
FromStrFmt ==
    /\ call.op = "fmt"
    /\ call' = [op |-> "from_str", text |-> call.val, x |-> call.x, y |-> call.y,
                pos |-> call.pos, val |-> from_str(call.val)]
    /\ UNCHANGED <<findVars, sliceVars, runVars>>

\* s.parse::<AtlasPos>() of an input text
FromStr ==
    /\ call.op = "none"
    /\ \E t \in Texts :
          call' = [op |-> "from_str", text |-> t, x |-> -1, y |-> -1, pos |-> -1,
                   val |-> from_str(t)]
    /\ UNCHANGED <<findVars, sliceVars, runVars>>

\* AtlasPos::from_pos(x1, y1).cmp(&AtlasPos::from_pos(x2, y2))
Cmp ==
    /\ call.op = "none"
    /\ \E x1 \in 0..(Grid - 1), y1 \in 0..(Grid - 1),
          x2 \in 0..(Grid - 1), y2 \in 0..(Grid - 1) :
          call' = [op |-> "cmp", x1 |-> x1, y1 |-> y1, x2 |-> x2, y2 |-> y2,
                   val |-> cmp(from_pos(x1, y1), from_pos(x2, y2))]
    /\ UNCHANGED <<findVars, sliceVars, runVars>>

NextCoord == FromPos \/ Fmt \/ FromStrFmt \/ FromStr \/ Cmp

(***************************************************************************)
(* Archive multiplexer: struct Zips                                        *)
(***************************************************************************)

\* most archives a [folders] table declares
MaxArchives == 2

RECURSIVE LexLess(_, _)
\* Ord for String: byte-wise lexicographic, a proper prefix first
LexLess(a, b) ==
    IF b = <<>> THEN FALSE
    ELSE IF a = <<>> THEN TRUE
    ELSE IF Head(a) # Head(b) THEN Head(a) < Head(b)
    ELSE LexLess(Tail(a), Tail(b))

RECURSIVE InsertByName(_, _)
\* BTreeMap::insert of one (file, paths) pair into the pairs kept in key order
InsertByName(sorted, e) ==
    IF sorted = <<>> THEN <<e>>
    ELSE IF LexLess(e.name, Head(sorted).name) THEN <<e>> \o sorted
    ELSE <<Head(sorted)>> \o InsertByName(Tail(sorted), e)

RECURSIVE CollectByName(_)
CollectByName(d) ==
    IF d = <<>> THEN <<>>
    ELSE InsertByName(CollectByName(SubSeq(d, 1, Len(d) - 1)), d[Len(d)])

\* a map that iterates in the order of the mapping file
FoldersInFileOrder(d) == d

\* type Folders = BTreeMap<String, Vec<String>>: the declared table as the
\* deserialized map iterates it, in ascending order of archive file name
Folders(d) == CollectByName(d)

\* Zips::new: one (ZipArchive, &paths) per entry of folders.iter()
ZipsNew(folders) == [i \in 1..Len(folders) |-> [zip |-> folders[i].name, paths |-> folders[i].paths]]

\* format!("{}/{}", path, file): the entry name in the archive
EntryName(path, file) == path \o <<file>>

\* ZipArchive::by_name: Ok only for an entry the archive holds and can open
by_name(zip, name) ==
    IF name \in files[zip] THEN Ok([zip |-> zip, entry |-> name]) ELSE Err("ZipError")

RECURSIVE FindFrom(_, _, _, _)
\* the two nested loops of Zips::find, from archive i and prefix j on
FindFrom(zs, file, i, j) ==
    IF i > Len(zs) THEN [some |-> FALSE]
    ELSE IF j > Len(zs[i].paths) THEN FindFrom(zs, file, i + 1, 1)
    ELSE LET r == by_name(zs[i].zip, EntryName(zs[i].paths[j], file))
         IN  IF r.ok THEN [some |-> TRUE, val |-> r.val]
             ELSE FindFrom(zs, file, i, j + 1)

\* Zips::find
find(zs, file) == FindFrom(zs, file, 1, 1)

\* archive file names: "a", "b", "ab"
ArchiveNames == {<<97>>, <<98>>, <<97, 98>>}

PrefixP == << <<"p">> >>

PrefixQ == << <<"q">> >>

PrefixLists == {<<>>, <<PrefixP>>, <<PrefixP, PrefixQ>>, <<PrefixQ, PrefixP>>}

FileF == <<"f", "png">>

FileG == <<"g", "png">>

\* the entries an archive may hold; FileG is in none
Entries == {EntryName(PrefixP, FileF), EntryName(PrefixQ, FileF)}

DeclaredGroups ==
    {d \in UNION {[1..n -> [name : ArchiveNames, paths : PrefixLists]] : n \in 0..MaxArchives} :
        \A i, j \in 1..Len(d) : i # j => d[i].name # d[j].name}

NamesOf(d) == {d[i].name : i \in 1..Len(d)}

InitFind ==
    /\ declared \in DeclaredGroups
    /\ \E holds \in [ArchiveNames -> [Entries -> {"absent", "opens", "locked"}]] :
          /\ \A a \in ArchiveNames \ NamesOf(declared) : \A e \in Entries : holds[a][e] = "absent"
          /\ files = [a \in ArchiveNames |-> {e \in Entries : holds[a][e] = "opens"}]
          /\ locked = [a \in ArchiveNames |-> {e \in Entries : holds[a][e] = "locked"}]
    /\ zips = ZipsNew(Folders(declared))
    /\ found = None
    /\ IdleCoord
    /\ IdleSlice
    /\ IdleRun

\* zips.find(file)
Find ==
    /\ found.op = "none"
    /\ \E f \in {FileF, FileG} :
          found' = [op |-> "find", file |-> f, val |-> find(zips, f)]
    /\ UNCHANGED <<declared, files, locked, zips>>
    /\ UNCHANGED <<coordVars, sliceVars, runVars>>

NextFind == Find

(***************************************************************************)
(* Atlas slicer: process_atlas                                             *)
(***************************************************************************)

\* most coordinates an Atlas maps
MaxMapped == 2

\* the file name with its extension replaced: the file stem (the whole name
\* when it has no dot, or only a leading one; the part before the last dot
\* otherwise), then a dot and the extension
SetExtension(name, ext) ==
    IF Len(name) = 1 \/ (Len(name) = 2 /\ name[1] = "")
    THEN name \o <<ext>>
    ELSE SubSeq(name, 1, Len(name) - 1) \o <<ext>>

\* Path::with_extension: the extension of the last component replaced
with_extension(path, ext) ==
    SubSeq(path, 1, Len(path) - 1) \o <<SetExtension(path[Len(path)], ext)>>

\* Path::join of a directory and a relative name of one component
join(dir, name) == dir \o <<name>>

\* a write that leaves a file that is already there as it is
WriteIfAbsent(tree, path, content) ==
    IF path \in DOMAIN tree THEN tree
    ELSE [q \in DOMAIN tree \cup {path} |-> IF q = path THEN content ELSE tree[q]]

\* the output tree after the file at path is created or overwritten with content
Write(tree, path, content) ==
    [q \in DOMAIN tree \cup {path} |-> IF q = path THEN content ELSE tree[q]]

\* a view that takes the row for the column
view_transposed(img, vx, vy, w, h) ==
    IF vy + w > img.w \/ vx + h > img.h THEN [ok |-> FALSE]
    ELSE [ok |-> TRUE, val |-> [kind |-> "png", src |-> img.src,
                                x0 |-> vy, y0 |-> vx, w |-> w, h |-> h]]

\* image.view(x, y, w, h).to_image(): the pixels of that rectangle; it panics
\* when the rectangle is not inside the image
view(img, vx, vy, w, h) ==
    IF vx + w > img.w \/ vy + h > img.h THEN [ok |-> FALSE]
    ELSE [ok |-> TRUE, val |-> [kind |-> "png", src |-> img.src,
                                x0 |-> vx, y0 |-> vy, w |-> w, h |-> h]]

\* what a write that failed leaves at its path: nothing new when the file
\* could not be created, a truncated file otherwise
Partial == [kind |-> "partial"]

NoFault == [at |-> -1]

\* "let slice = AtlasPos::from_pos(x as u8, y as u8)" for each cell y * 16 + x
CellPos == [i \in 0..(Grid * Grid - 1) |-> from_pos((i % Grid) % U8, (i \div Grid) % U8)]

\* the cells from idx = y * 16 + x on, in the order of the loops, that the
\* Atlas maps: the ones "if let Some(output) = atlas.get(&slice)" lets in
Mapped(map, idx) == {i \in idx..(Grid * Grid - 1) : CellPos[i] \in DOMAIN map}

RECURSIVE SliceFrom(_, _, _, _, _, _, _)
\* the loops "for y in 0..16 { for x in 0..16 {" of process_atlas from cell
\* idx on; io names the save that fails, if one does
SliceFrom(map, img, dir, tree, saves, idx, io) ==
    LET todo == Mapped(map, idx) IN
    IF todo = {} THEN [outcome |-> "Ok", err |-> "none", fs |-> tree, saves |-> saves]
    ELSE LET i == CHOOSE m \in todo : \A n \in todo : m <= n
             cx == i % Grid
             cy == i \div Grid
             slice == CellPos[i]
             output == with_extension(join(dir, map[slice]), "png")
             cell == view(img, cx * Cell, cy * Cell, Cell, Cell)
         IN  IF ~cell.ok
             THEN [outcome |-> "panic", err |-> "none", fs |-> tree, saves |-> saves]
             ELSE IF io.at = slice
             THEN [outcome |-> "Err", err |-> "io", saves |-> saves,
                   fs |-> IF io.created THEN Write(tree, output, Partial) ELSE tree]
             ELSE SliceFrom(map, img, dir, Write(tree, output, cell.val),
                            Append(saves, [pos |-> slice, path |-> output]),
                            i + 1, io)

\* process_atlas(atlas, input, output_dir)
process_atlas(map, img, dir, tree, io) ==
    IF ~img.ok THEN [outcome |-> "Err", err |-> "decode", fs |-> tree, saves |-> <<>>]
    ELSE SliceFrom(map, img, dir, tree, <<>>, 0, io)

\* the coordinates drawn as keys: 00, 01, 0f, 10, ff
PosSample == {0, 1, 15, 16, 255}

\* the output names drawn: "a", "b", "a.x", ".a"
NameSample == {<<"a">>, <<"b">>, <<"a", "x">>, <<"", "a">>}

\* the sides in pixels drawn for the source image
SideSample == {16, 255, 256, 272}

Atlases ==
    UNION {[keys -> NameSample] : keys \in {k \in SUBSET PosSample : Cardinality(k) <= MaxMapped}}

Faults(map) == {NoFault} \cup {[at |-> p, created |-> c] : p \in DOMAIN map, c \in BOOLEAN}

OutDir == << <<"out">> >>

SliceSrc == "input"

InitSlice ==
    /\ atlas \in Atlases
    /\ image \in {[ok |-> FALSE]} \cup
                 {[ok |-> TRUE, src |-> SliceSrc, w |-> w, h |-> h] : w, h \in SideSample}
    /\ fs = <<>>
    /\ res = None
    /\ IdleCoord
    /\ IdleFind
    /\ IdleRun

\* process_atlas(&atlas, input, output_dir)
ProcessAtlas ==
    /\ res.op = "none"
    /\ \E io \in Faults(atlas) :
          \E r \in {process_atlas(atlas, image, OutDir, fs, io)} :
              /\ res' = [op |-> "process_atlas", io |-> io, outcome |-> r.outcome,
                         err |-> r.err, saves |-> r.saves]
              /\ fs' = r.fs
    /\ UNCHANGED <<atlas, image>>
    /\ UNCHANGED <<coordVars, findVars, runVars>>

NextSlice == ProcessAtlas

(***************************************************************************)
(* Run driver: main                                                        *)
(***************************************************************************)

\* most runs of the tool over one output tree
MaxRuns == 2

\* opt.toml.parent(): the directory of the mapping file
Parent == << <<"proj">> >>

\* let res = opt.toml.parent().unwrap().join("src").join("main").join("resources")
ResDir == join(join(join(Parent, <<"src">>), <<"main">>), <<"resources">>)

\* let namespace = res.join("assets").join(toml.modid)
Namespace(cfg) == join(join(ResDir, <<"assets">>), cfg.modid)

\* let textures = namespace.join("textures")
Textures(cfg) == join(Namespace(cfg), <<"textures">>)

\* let models_dir = namespace.join("models").join("block")
ModelsDir(cfg) == join(join(Namespace(cfg), <<"models">>), <<"block">>)

\* let guis_dir = textures.join("gui")
GuisDir(cfg) == join(Textures(cfg), <<"gui">>)

\* both atlas catalogs sliced into the item directory
BlocksDirAsItems(cfg) == join(Textures(cfg), <<"item">>)

\* let blocks_dir = textures.join("block")
BlocksDir(cfg) == join(Textures(cfg), <<"block">>)

\* let items_dir = textures.join("item")
ItemsDir(cfg) == join(Textures(cfg), <<"item">>)

\* the flat copies of one list: "for model in toml.models { ... }"
CopyJobs(cat, names, dir) ==
    [i \in 1..Len(names) |-> [kind |-> "copy", cat |-> cat, name |-> names[i],
                              dest |-> join(dir, names[i])]]

\* the atlases of one catalog: "for (atlas, map) in atlas { ... }" of
\* process_atlas_map, the lookup name being Path::new(atlas).with_extension("png")
AtlasJobs(cat, catalog, dir) ==
    [i \in 1..Len(catalog) |-> [kind |-> "atlas", cat |-> cat,
                                name |-> with_extension(<<catalog[i].id>>, "png")[1],
                                map |-> catalog[i].map, dir |-> dir]]

\* what main does after the directories are computed, in order: the banner,
\* the models, the GUI images, the blocks_copy images, the item atlases, the
\* block atlases
Jobs(cfg) ==
    <<[kind |-> "copy", cat |-> "banner", name |-> cfg.banner,
       dest |-> join(ResDir, cfg.banner)]>>
    \o CopyJobs("models", cfg.models, ModelsDir(cfg))
    \o CopyJobs("gui", cfg.gui, GuisDir(cfg))
    \o CopyJobs("blocks_copy", cfg.blocks_copy, BlocksDir(cfg))
    \o AtlasJobs("items", cfg.items, ItemsDir(cfg))
    \o AtlasJobs("blocks", cfg.blocks, BlocksDir(cfg))

\* an error that is dropped instead of returned
QuestionMarkIgnored(ok) == -1

\* the ? operator in main: an Err makes main return it, and the process exits 1
QuestionMark(ok) == IF ok THEN -1 ELSE 1

\* Option::unwrap: None panics, and the process exits 101
Unwrap(opt) == IF opt.some THEN -1 ELSE 101

\* a handle that is never dropped
DropLeaked(handles, h) == handles

\* drop(banner), or the end of a loop body: the handle is gone
Drop(handles, h) == handles \ {h}

\* File::create: the file exists and is empty
Create(tree, path) == Write(tree, path, Partial)

\* the bytes of an archive entry, as a file holds them
Bytes(entry) == [kind |-> "bytes", of |-> entry]

\* where main goes after job k is complete
After(cfg, k) == IF k < Len(Jobs(cfg)) THEN [job |-> k + 1, step |-> "find"]
                 ELSE [job |-> 0, step |-> "print"]

\* image::load(input, ImageFormat::Png) of the bytes of an entry
load(entry) ==
    IF pngs[entry].ok
    THEN [ok |-> TRUE, src |-> entry, w |-> pngs[entry].side, h |-> pngs[entry].side]
    ELSE [ok |-> FALSE]

Handle(k) == [job |-> k, entry |-> found.val.val]

Logged(k, step, ok, paths) == Append(steps, [job |-> k, step |-> step, ok |-> ok, paths |-> paths])

\* an exit status other than -1 ends the run: the locals are dropped
Ended(code) ==
    /\ exit' = code
    /\ pc' = [job |-> 0, step |-> "exited"]
    /\ live' = {}

\* lines 183-199: the arguments, the mapping file, Zips::new, the directories
Start ==
    /\ pc.step = "start"
    /\ \E ok \in BOOLEAN :
          /\ steps' = Logged(0, "start", ok, <<>>)
          /\ IF QuestionMark(ok) = -1
             THEN pc' = [job |-> 1, step |-> "find"] /\ UNCHANGED <<exit, live>>
             ELSE Ended(QuestionMark(ok))
    /\ UNCHANGED <<toml, pngs, unread, out, history, fs, found>>
    /\ UNCHANGED <<coordVars, declared, files, locked, zips, atlas, image, res>>

\* zips.find(name).unwrap(), for a flat copy or an atlas
RunFind ==
    /\ pc.step = "find"
    /\ LET job == Jobs(toml)[pc.job]
           r == find(zips, job.name)
       IN  /\ found' = [op |-> "find", file |-> job.name, val |-> r]
           /\ steps' = Logged(pc.job, "find", r.some, <<>>)
           /\ IF Unwrap(r) = -1
              THEN /\ live' = live \cup {[job |-> pc.job, entry |-> r.val]}
                   /\ unread' = unread \cup {[job |-> pc.job, entry |-> r.val]}
                   /\ pc' = [job |-> pc.job,
                             step |-> IF job.kind = "copy" THEN "create" ELSE "read"]
                   /\ UNCHANGED exit
              ELSE Ended(Unwrap(r)) /\ UNCHANGED unread
    /\ UNCHANGED <<toml, pngs, out, history, fs>>
    /\ UNCHANGED <<coordVars, declared, files, locked, zips, atlas, image, res>>

\* File::create(dir.join(name))?
RunCreate ==
    /\ pc.step = "create"
    /\ LET job == Jobs(toml)[pc.job]
       IN  \E ok \in BOOLEAN :
             /\ steps' = Logged(pc.job, "create", ok, IF ok THEN <<job.dest>> ELSE <<>>)
             /\ fs' = IF ok THEN Create(fs, job.dest) ELSE fs
             /\ IF QuestionMark(ok) = -1
                THEN pc' = [job |-> pc.job, step |-> "copy"] /\ UNCHANGED <<exit, live>>
                ELSE Ended(QuestionMark(ok))
    /\ UNCHANGED <<toml, pngs, unread, out, history, found>>
    /\ UNCHANGED <<coordVars, declared, files, locked, zips, atlas, image, res>>

\* std::io::copy(&mut entry, &mut file)?, then the handle is dropped
RunCopy ==
    /\ pc.step = "copy"
    /\ LET job == Jobs(toml)[pc.job]
           h == Handle(pc.job)
       IN  \E ok \in BOOLEAN :
             /\ steps' = Logged(pc.job, "copy", ok, <<job.dest>>)
             /\ fs' = IF ok THEN Write(fs, job.dest, Bytes(h.entry)) ELSE fs
             /\ unread' = IF ok THEN unread \ {h} ELSE unread
             /\ IF QuestionMark(ok) = -1
                THEN /\ live' = Drop(live, h)
                     /\ pc' = After(toml, pc.job)
                     /\ UNCHANGED exit
                ELSE Ended(QuestionMark(ok))
    /\ UNCHANGED <<toml, pngs, out, history, found>>
    /\ UNCHANGED <<coordVars, declared, files, locked, zips, atlas, image, res>>

\* image.read_to_end(&mut data)?
RunRead ==
    /\ pc.step = "read"
    /\ LET h == Handle(pc.job)
       IN  \E ok \in BOOLEAN :
             /\ steps' = Logged(pc.job, "read", ok, <<>>)
             /\ unread' = IF ok THEN unread \ {h} ELSE unread
             /\ IF QuestionMark(ok) = -1
                THEN pc' = [job |-> pc.job, step |-> "slice"] /\ UNCHANGED <<exit, live>>
                ELSE Ended(QuestionMark(ok))
    /\ UNCHANGED <<toml, pngs, out, history, fs, found>>
    /\ UNCHANGED <<coordVars, declared, files, locked, zips, atlas, image, res>>

\* process_atlas(map, Cursor::new(data), output_dir)?, then the handle is dropped
RunSlice ==
    /\ pc.step = "slice"
    /\ LET job == Jobs(toml)[pc.job]
           h == Handle(pc.job)
       IN  \E io \in Faults(job.map) :
             \E r \in {process_atlas(job.map, load(h.entry), job.dir, fs, io)} :
             LET code == IF r.outcome = "panic" THEN 101 ELSE QuestionMark(r.outcome = "Ok")
             IN  /\ steps' = Logged(pc.job, "slice", r.outcome = "Ok",
                                    [k \in 1..Len(r.saves) |-> r.saves[k].path])
                 /\ fs' = r.fs
                 /\ IF code = -1
                    THEN /\ live' = Drop(live, h)
                         /\ pc' = After(toml, pc.job)
                         /\ UNCHANGED exit
                    ELSE Ended(code)
    /\ UNCHANGED <<toml, pngs, unread, out, history, found>>
    /\ UNCHANGED <<coordVars, declared, files, locked, zips, atlas, image, res>>

\* println!("done"); Ok(())
RunDone ==
    /\ pc.step = "print"
    /\ out' = Append(out, "done")
    /\ steps' = Logged(0, "print", TRUE, <<>>)
    /\ Ended(0)
    /\ UNCHANGED <<toml, pngs, unread, history, fs, found>>
    /\ UNCHANGED <<coordVars, declared, files, locked, zips, atlas, image, res>>

\* the tool is started again with the same arguments over the tree it left
Rerun ==
    /\ pc.step = "exited"
    /\ Len(history) + 1 < MaxRuns
    /\ history' = Append(history, exit)
    /\ pc' = [job |-> 0, step |-> "start"]
    /\ exit' = -1
    /\ out' = <<>>
    /\ steps' = <<>>
    /\ live' = {}
    /\ unread' = {}
    /\ found' = None
    /\ UNCHANGED <<toml, pngs, fs>>
    /\ UNCHANGED <<coordVars, declared, files, locked, zips, atlas, image, res>>

NextRun == Start \/ RunFind \/ RunCreate \/ RunCopy \/ RunRead \/ RunSlice \/ RunDone \/ Rerun

\* the archive of the runs: "a", searched under the prefix p
RunArchive == <<97>>

ItemAtlas == [id |-> <<"items">>, map |-> (0 :> <<"a">>)]

BlockAtlas == [id |-> <<"terrain">>, map |-> (1 :> <<"a">> @@ 255 :> <<"b">>)]

\* the mapping files of the runs: one with every category, one with the
\* banner and the block atlas only
Configs ==
    {[modid |-> <<"mod">>, banner |-> <<"logo", "png">>,
      models |-> << <<"m1", "json">>, <<"m2", "json">> >>,
      gui |-> << <<"x", "png">> >>, blocks_copy |-> << <<"x", "png">> >>,
      items |-> <<ItemAtlas>>, blocks |-> <<BlockAtlas>>],
     [modid |-> <<"mod">>, banner |-> <<"logo", "png">>,
      models |-> <<>>, gui |-> <<>>, blocks_copy |-> <<>>,
      items |-> <<>>, blocks |-> <<BlockAtlas>>]}

\* the entries the archive needs for a configuration
Needed(cfg) == {EntryName(PrefixP, Jobs(cfg)[k].name) : k \in 1..Len(Jobs(cfg))}

AtlasEntries(cfg) ==
    {[zip |-> RunArchive, entry |-> EntryName(PrefixP, Jobs(cfg)[k].name)] :
        k \in {j \in 1..Len(Jobs(cfg)) : Jobs(cfg)[j].kind = "atlas"}}

InitRun ==
    /\ toml \in Configs
    /\ declared = <<[name |-> RunArchive, paths |-> <<PrefixP>>]>>
    /\ \E missing \in {m \in SUBSET Needed(toml) : Cardinality(m) <= 1} :
          files = [a \in ArchiveNames |-> IF a = RunArchive THEN Needed(toml) \ missing ELSE {}]
    /\ locked = [a \in ArchiveNames |-> {}]
    /\ zips = ZipsNew(Folders(declared))
    /\ found = None
    /\ pngs \in {f \in [AtlasEntries(toml) -> [ok : BOOLEAN, side : {16, 256}]] :
                    \A e \in DOMAIN f : ~f[e].ok => f[e].side = 16}
    /\ fs = <<>>
    /\ pc = [job |-> 0, step |-> "start"]
    /\ live = {}
    /\ unread = {}
    /\ exit = -1
    /\ out = <<>>
    /\ steps = <<>>
    /\ history = <<>>
    /\ atlas = <<>>
    /\ image = [ok |-> FALSE]
    /\ res = None
    /\ IdleCoord

SpecCoord == InitCoord /\ [][NextCoord]_vars

SpecFind == InitFind /\ [][NextFind]_vars

SpecRun == InitRun /\ [][NextRun]_vars

SpecSlice == InitSlice /\ [][NextSlice]_vars

(***************************************************************************)
(* Properties of the grid coordinate                                       *)
(***************************************************************************)

\* the sixteen lowercase hexadecimal digits, as code points
LowerHexDigits == <<48, 49, 50, 51, 52, 53, 54, 55, 56, 57, 97, 98, 99, 100, 101, 102>>

\* the code points that are hexadecimal digits: 0-9, A-F, a-f
HexChars == (48..57) \cup (65..70) \cup (97..102)

IsWrongSize(v) == ~v.ok /\ v.err.kind = "WrongSize"

IsNotHexDigits(v) == ~v.ok /\ v.err.kind = "NotHexDigits"

\* C3: for every column and row in [0,16), formatting from_pos(column, row)
\* gives exactly two lowercase hex digits, the row digit then the column
\* digit, and parsing that text gives from_pos(column, row) back.
C3_RoundTrip ==
    (call.op = "from_str" /\ call.pos # -1) =>
        /\ call.text = <<LowerHexDigits[call.y + 1], LowerHexDigits[call.x + 1]>>
        /\ call.val = Ok(call.pos)

C3_Witness ==
    /\ call.op = "from_str"
    /\ call.x = 10
    /\ call.y = 3
    /\ call.text = <<51, 97>>
    /\ call.val = Ok(58)

\* C4 as claimed: from_str fails with WrongSize for every text whose length
\* in characters is not 2, with NotHexDigits for every text of 2 characters
\* one of which is no hex digit, and succeeds only for two hex digits.
C4_AsClaimed ==
    call.op = "from_str" =>
        LET t == call.text
        IN  /\ Len(t) # 2 => IsWrongSize(call.val)
            /\ (Len(t) = 2 /\ \E i \in 1..2 : t[i] \notin HexChars) => IsNotHexDigits(call.val)
            /\ call.val.ok => (Len(t) = 2 /\ \A i \in 1..2 : t[i] \in HexChars)

\* C4 amended: from_str fails with WrongSize for every text whose length in
\* UTF-8 bytes is not 2, with NotHexDigits for every text of 2 bytes one of
\* which is no ASCII hex digit, and succeeds only for two hex digits.
C4_ByBytes ==
    call.op = "from_str" =>
        LET t == call.text
            b == as_bytes(t)
        IN  /\ Len(b) # 2 => (IsWrongSize(call.val) /\ call.val.err.len = Len(b))
            /\ (Len(b) = 2 /\ \E i \in 1..2 : b[i] \notin HexChars) => IsNotHexDigits(call.val)
            /\ call.val.ok => (Len(t) = 2 /\ \A i \in 1..2 : t[i] \in HexChars)

\* one character of two bytes: not WrongSize but NotHexDigits
C4_Witness ==
    /\ call.op = "from_str"
    /\ call.text = <<233>>
    /\ IsNotHexDigits(call.val)

\* C8: from_pos(c1, r1) < from_pos(c2, r2) exactly when r1 < r2, or r1 = r2
\* and c1 < c2.
C8_RowMajor ==
    call.op = "cmp" =>
        (call.val = "Less" <=>
            (call.y1 < call.y2 \/ (call.y1 = call.y2 /\ call.x1 < call.x2)))

C8_Witness ==
    /\ call.op = "cmp"
    /\ call.x1 = 15 /\ call.y1 = 1
    /\ call.x2 = 0 /\ call.y2 = 2
    /\ call.val = "Less"

(***************************************************************************)
(* Properties of the archive multiplexer                                   *)
(***************************************************************************)

Some(v) == [some |-> TRUE, val |-> v]

\* the (archive, prefix) pairs of the declared group under which the entry
\* of the given file is in the given per-archive sets
Hits(file, holds) ==
    UNION {{[i |-> i, j |-> j] :
               j \in {n \in 1..Len(declared[i].paths) :
                         EntryName(declared[i].paths[n], file) \in holds[declared[i].name]}} :
           i \in 1..Len(declared)}

HitContent(h, file) ==
    [zip |-> declared[h.i].name, entry |-> EntryName(declared[h.i].paths[h.j], file)]

\* C1 as claimed: with every entry readable, find returns the entry of the
\* first pair that holds it, archives in the order the group declares them
\* and prefixes in their declared order, and None exactly when no pair does.
C1_AsClaimed ==
    (found.op = "find" /\ \A a \in ArchiveNames : locked[a] = {}) =>
        LET hits == Hits(found.file, files)
            first == CHOOSE h \in hits : \A g \in hits :
                        h.i < g.i \/ (h.i = g.i /\ h.j <= g.j)
        IN  IF hits = {} THEN found.val = [some |-> FALSE]
            ELSE found.val = Some(HitContent(first, found.file))

\* C1 amended: find returns the entry of the first pair whose entry the
\* archive opens, archives in ascending byte-wise order of their file names
\* and prefixes in their declared order, and None exactly when no pair has one.
C1_ByArchiveName ==
    found.op = "find" =>
        LET hits == Hits(found.file, files)
            first == CHOOSE h \in hits : \A g \in hits :
                        \/ LexLess(declared[h.i].name, declared[g.i].name)
                        \/ (h.i = g.i /\ h.j <= g.j)
        IN  IF hits = {} THEN found.val = [some |-> FALSE]
            ELSE found.val = Some(HitContent(first, found.file))

\* both archives hold the entry and the one declared second is returned
C1_Witness ==
    /\ found.op = "find"
    /\ Len(declared) = 2
    /\ \A i \in 1..2 : \E j \in 1..Len(declared[i].paths) :
          EntryName(declared[i].paths[j], found.file) \in files[declared[i].name]
    /\ found.val.some
    /\ found.val.val.zip = declared[2].name

(***************************************************************************)
(* Properties of the atlas slicer                                          *)
(***************************************************************************)

\* the 16x16 cell of the source whose top-left pixel is (column*16, row*16),
\* column in the low and row in the high nibble of the coordinate
CellOf(p) ==
    [kind |-> "png", src |-> image.src, x0 |-> (p % 16) * 16, y0 |-> (p \div 16) * 16,
     w |-> 16, h |-> 16]

Sliced256 ==
    /\ res.op = "process_atlas"
    /\ res.outcome = "Ok"
    /\ image.w = 256
    /\ image.h = 256

SavedOnce ==
    /\ \A p \in DOMAIN atlas : Cardinality({k \in 1..Len(res.saves) : res.saves[k].pos = p}) = 1
    /\ \A k \in 1..Len(res.saves) : res.saves[k].pos \in DOMAIN atlas

\* C2 as claimed: after slicing a 256x256 image, for every (coordinate, name)
\* of the mapping the file name.png is under the output directory and holds
\* the cell of that coordinate; no other file is written and every mapped
\* coordinate is processed exactly once.
C2_AsClaimed ==
    Sliced256 =>
        LET file(p) == with_extension(join(OutDir, atlas[p]), "png")
        IN  /\ \A p \in DOMAIN atlas : file(p) \in DOMAIN fs /\ fs[file(p)] = CellOf(p)
            /\ DOMAIN fs = {file(p) : p \in DOMAIN atlas}
            /\ SavedOnce

\* C2 amended: after slicing a 256x256 image, for every (coordinate, name) of
\* the mapping the file named name with its extension, if it has one,
\* replaced by png is under the output directory and holds the cell of the
\* last coordinate in row-major order mapped to that file; no other file is
\* written and every mapped coordinate is processed exactly once.
C2_LastCellWins ==
    Sliced256 =>
        LET file(p) == with_extension(join(OutDir, atlas[p]), "png")
            last(p) == CHOOSE q \in DOMAIN atlas :
                          /\ file(q) = file(p)
                          /\ \A r \in DOMAIN atlas : file(r) = file(p) => r <= q
        IN  /\ \A p \in DOMAIN atlas : file(p) \in DOMAIN fs /\ fs[file(p)] = CellOf(last(p))
            /\ DOMAIN fs = {file(p) : p \in DOMAIN atlas}
            /\ SavedOnce

\* two coordinates mapped to the same file
C2_Witness ==
    /\ Sliced256
    /\ DOMAIN atlas = {1, 255}
    /\ atlas[1] = <<"a", "x">>
    /\ atlas[255] = <<"a">>
    /\ fs[join(OutDir, <<"a", "png">>)] = CellOf(255)

\* the mapped coordinates whose cell is not inside the image
Outside == {p \in DOMAIN atlas : (p % 16) * 16 + 16 > image.w \/ (p \div 16) * 16 + 16 > image.h}

\* C7: when a mapped coordinate's cell is not inside the source image,
\* process_atlas fails with the error OutOfBounds and writes no file for it.
C7_AsClaimed ==
    (res.op = "process_atlas" /\ image.ok /\ res.io = NoFault /\ Outside # {}) =>
        /\ res.outcome = "Err"
        /\ res.err = "OutOfBounds"
        /\ \A k \in 1..Len(res.saves) : res.saves[k].pos \notin Outside

(***************************************************************************)
(* Properties of the run driver                                            *)
(***************************************************************************)

\* src/main/resources under the directory of the mapping file
Resources == << <<"proj">>, <<"src">>, <<"main">>, <<"resources">> >>

\* src/main/resources/assets/<modid> under the directory of the mapping file
Assets == Resources \o << <<"assets">>, toml.modid >>

\* every path that the steps of this run wrote is where place(category, name,
\* path) says a file of its category belongs
LandsWhere(place(_, _, _)) ==
    \A k \in 1..Len(steps) : \A i \in 1..Len(steps[k].paths) :
        LET job == Jobs(toml)[steps[k].job]
        IN  place(job.cat, job.name, steps[k].paths[i])

Under(dir, path) == Len(path) = Len(dir) + 1 /\ SubSeq(path, 1, Len(dir)) = dir

PlaceOfAssets(cat, name, path) ==
    CASE cat = "models" -> path = Assets \o << <<"models">>, <<"block">>, name >>
      [] cat = "gui" -> path = Assets \o << <<"textures">>, <<"gui">>, name >>
      [] cat = "blocks_copy" -> path = Assets \o << <<"textures">>, <<"block">>, name >>
      [] cat = "blocks" -> Under(Assets \o << <<"textures">>, <<"block">> >>, path)
      [] cat = "items" -> Under(Assets \o << <<"textures">>, <<"item">> >>, path)

PlaceAsClaimed(cat, name, path) ==
    IF cat = "banner" THEN path = Assets \o <<name>> ELSE PlaceOfAssets(cat, name, path)

PlaceBannerInResources(cat, name, path) ==
    IF cat = "banner" THEN path = Resources \o <<name>> ELSE PlaceOfAssets(cat, name, path)

\* C5 as claimed: every file a run writes is at the path of its category
\* under src/main/resources/assets/<modid>: the banner directly there, models
\* in models/block, GUI images in textures/gui, blocks_copy images and block
\* atlas slices in textures/block, item atlas slices in textures/item.
C5_AsClaimed == LandsWhere(PlaceAsClaimed)

\* C5 amended: as claimed, but the banner is written to
\* src/main/resources/<banner file>, not under assets/<modid>.
C5_BannerInResources == LandsWhere(PlaceBannerInResources)

\* a run that wrote a file of every category
C5_Witness ==
    /\ exit = 0
    /\ Len(Jobs(toml)) = 7
    /\ Resources \o << <<"logo", "png">> >> \in DOMAIN fs
    /\ Assets \o << <<"textures">>, <<"block">>, <<"b", "png">> >> \in DOMAIN fs
    /\ Assets \o << <<"textures">>, <<"item">>, <<"a", "png">> >> \in DOMAIN fs

\* the jobs whose last step (the copy, or the slicing) is logged as done
Completed == {steps[k].job : k \in {n \in 1..Len(steps) : steps[n].ok /\ steps[n].step \in {"copy", "slice"}}}

\* C6: once a step of a run fails, no later step is performed, the run ends
\* with a nonzero exit status and "done" is not printed; "done" and exit
\* status 0 come only after every flat copy and every atlas is complete.
C6_AbortOnFirstFailure ==
    /\ \A k \in 1..(Len(steps) - 1) : steps[k].ok
    /\ (steps # <<>> /\ ~steps[Len(steps)].ok) => (exit \in {1, 101} /\ out = <<>>)
    /\ (out # <<>> \/ exit = 0) =>
          /\ out = <<"done">>
          /\ exit = 0
          /\ Completed = 1..Len(Jobs(toml))

\* a lookup miss after some copies were made
C6_Witness ==
    /\ pc.step = "exited"
    /\ exit = 101
    /\ out = <<>>
    /\ Len(steps) > 4
    /\ steps[Len(steps)].step = "find"
    /\ ~steps[Len(steps)].ok

RECURSIVE ScratchFrom(_, _)
\* the output tree of a run without failure that starts job k on tree
ScratchFrom(k, tree) ==
    IF k > Len(Jobs(toml)) THEN tree
    ELSE LET job == Jobs(toml)[k]
             entry == find(zips, job.name).val
         IN  IF job.kind = "copy"
             THEN ScratchFrom(k + 1, [q \in DOMAIN tree \cup {job.dest} |->
                                        IF q = job.dest THEN Bytes(entry) ELSE tree[q]])
             ELSE ScratchFrom(k + 1, process_atlas(job.map, load(entry), job.dir, tree, NoFault).fs)

\* C9: a run that succeeds leaves the output tree of a single successful run
\* from scratch, whatever tree the earlier runs left, complete or partial.
C9_RerunIdempotent == exit = 0 => fs = ScratchFrom(1, <<>>)

\* a successful run over the tree of a run that was aborted
C9_Witness ==
    /\ history = <<1>>
    /\ exit = 0
    /\ Len(Jobs(toml)) = 7
    /\ fs = ScratchFrom(1, <<>>)

\* C10: at most one entry handle is live at any time, and when find is
\* called every entry returned before was read to its end and dropped.
C10_SingleLiveEntry ==
    /\ Cardinality(live) <= 1
    /\ pc.step = "find" => (live = {} /\ unread = {})

\* the second model is being copied: its handle is the only one
C10_Witness ==
    /\ pc.step = "copy"
    /\ pc.job = 3
    /\ live = {Handle(3)}
    /\ unread = live

====
